---- MODULE Spec2Model ----
(***************************************************************************)
(* Model of internal/subnet: FromZones divides a network CIDR into one     *)
(* public and one private subnet per availability zone, avoiding the       *)
(* subnets that already exist.                                             *)
(*                                                                         *)
(* A CIDR string "a.b.c.d/n" is the record [ip |-> <<a,b,c,d>>, bits |-> n]*)
(* (malformed strings have a wrong octet count, an octet above 255 or a    *)
(* mask above 32).  A parsed *net.IPNet is [prefix |-> p, len |-> n] where *)
(* p is the value of the n leading address bits.  Only IPv4 is modelled.   *)
(***************************************************************************)
EXTENDS Integers, Sequences, FiniteSets, TLC

\* ------------------------------------------------------------------ bounds
MaxZones == 3
MaxExisting == 2

\* --------------------------------------------------------------- constants
maxCIDRMask == 28
\* mutant: a wider offsets loop
OffsetLimitLoose == 50 + 14

OffsetLimit == 50
AddrLen == 32

\* ------------------------------------------------------------ input values
Str(a, b, c, d, n) == [ip |-> <<a, b, c, d>>, bits |-> n]

ZoneNames == <<"us-east-1a", "us-east-1b", "us-east-1c", "us-east-1d", "us-east-1e">>

ZoneLists == {SubSeq(ZoneNames, 1, n) : n \in 0..MaxZones}

RootStrings ==
    { Str(10, 0, 0, 0, 20), Str(10, 0, 0, 0, 24), Str(10, 0, 1, 77, 24),
      Str(10, 0, 0, 0, 25), Str(10, 0, 0, 0, 26), Str(10, 0, 0, 0, 27),
      Str(10, 0, 0, 0, 31),
      Str(10, 0, 0, 0, 32), Str(10, 0, 0, 0, 33), [ip |-> <<10, 0, 0>>, bits |-> 24] }

ExistingPool ==
    << Str(10, 0, 0, 0, 21), Str(10, 0, 8, 0, 21), Str(10, 0, 8, 0, 22),
       Str(10, 0, 0, 0, 21), Str(10, 1, 0, 0, 24),
       Str(10, 0, 256, 0, 24), Str(10, 0, 0, 0, 40) >>

RECURSIVE Pick(_, _)
Pick(pool, idxs) ==
    IF idxs = {} THEN <<>>
    ELSE LET m == CHOOSE x \in idxs : \A y \in idxs : x <= y
         IN  <<pool[m]>> \o Pick(pool, idxs \ {m})

\* the reservation lists: selections of at most MaxExisting pool entries, in pool order
ExistingLists ==
    { Pick(ExistingPool, S) :
        S \in {T \in SUBSET (1..Len(ExistingPool)) : Cardinality(T) <= MaxExisting} }

\* the inputs of TestFromZones, TestFromZonesSupportsExistingSubnets and
\* TestFromZonesErrors on 10.0.0.0/16 that fit the zone bound
TestInputs ==
    { << Str(10, 0, 0, 0, 16), <<>>, SubSeq(ZoneNames, 1, 1) >>,
      << Str(10, 0, 0, 0, 16), << Str(10, 0, 0, 0, 24), Str(10, 0, 1, 0, 24) >>,
         SubSeq(ZoneNames, 1, 1) >>,
      << Str(10, 0, 0, 0, 16), << Str(10, 0, 0, 0, 17), Str(10, 0, 128, 0, 18) >>,
         SubSeq(ZoneNames, 1, 3) >>,
      << Str(10, 0, 0, 0, 16), << Str(10, 0, 0, 0, 17), Str(10, 0, 128, 0, 17) >>,
         SubSeq(ZoneNames, 1, 1) >> }

\* calls on the large root 10.0.0.0/8 with one zone: a single reservation
\* near the start of the root, and reservations that leave free only the
\* first and the 51st and 52nd of the 64 blocks of a 6-bit split
LargeRootInputs ==
    { << Str(10, 0, 0, 0, 8), << Str(10, 32, 0, 0, 11) >>, SubSeq(ZoneNames, 1, 1) >>,
      << Str(10, 0, 0, 0, 8),
         << Str(10, 4, 0, 0, 14), Str(10, 8, 0, 0, 13), Str(10, 16, 0, 0, 12),
            Str(10, 32, 0, 0, 11), Str(10, 64, 0, 0, 10), Str(10, 128, 0, 0, 10),
            Str(10, 192, 0, 0, 13), Str(10, 208, 0, 0, 12), Str(10, 224, 0, 0, 11) >>,
         SubSeq(ZoneNames, 1, 1) >> }

Inputs == (RootStrings \X ExistingLists \X ZoneLists) \cup TestInputs \cup LargeRootInputs

\* ------------------------------------------------------------------ values
NilNet == [prefix |-> -1, len |-> -1]
NoStr == [ip |-> <<>>, bits |-> -1]

NoErr == [kind |-> "nil", msg |-> <<>>, nums |-> <<>>, subject |-> NoStr]

errInvalidNetwork ==
    [kind |-> "errorString",
     msg |-> <<"Could not find a valid subnet configuration">>,
     nums |-> <<>>, subject |-> NoStr]

\* ---------------------------------------------------------- net.ParseCIDR
ParseOk(s) ==
    /\ Len(s.ip) = 4
    /\ \A n \in 1..4 : s.ip[n] \in 0..255
    /\ s.bits \in 0..AddrLen

IPToInt(ip) == ((ip[1] * 256 + ip[2]) * 256 + ip[3]) * 256 + ip[4]

IntToIP(v) ==
    << v \div 16777216, (v \div 65536) % 256, (v \div 256) % 256, v % 256 >>

\* the network of ParseCIDR: the address masked to its prefix
ParseNet(s) == [prefix |-> IPToInt(s.ip) \div 2^(AddrLen - s.bits), len |-> s.bits]

ParseError(s) ==
    [kind |-> "ParseError", msg |-> <<"invalid CIDR address:">>,
     nums |-> <<>>, subject |-> s]

ParseCIDR(s) ==
    IF ParseOk(s) THEN [net |-> ParseNet(s), err |-> NoErr]
    ELSE [net |-> NilNet, err |-> ParseError(s)]

\* (*net.IPNet).String
NetString(n) == [ip |-> IntToIP(n.prefix * 2^(AddrLen - n.len)), bits |-> n.len]

\* errors.Wrapf(err, "unable to parse subnet %q", s)
Wrapf(cause, s) ==
    [kind |-> "withMessage",
     msg |-> <<"unable to parse subnet">> \o cause.msg,
     nums |-> <<>>, subject |-> s]

\* ------------------------------------------------------------- cidr.Subnet
SubnetInsufficient(parentLen, newBits) ==
    [kind |-> "errorString",
     msg |-> <<"insufficient address space to extend prefix", "of", "by">>,
     nums |-> <<parentLen, newBits>>, subject |-> NoStr]

SubnetNotAccommodated(newBits, num) ==
    [kind |-> "errorString",
     msg |-> <<"prefix extension", "of", "does not accommodate a subnet numbered">>,
     nums |-> <<newBits, num>>, subject |-> NoStr]

Subnet(base, newBits, num) ==
    IF base.len + newBits > AddrLen
    THEN [net |-> NilNet, err |-> SubnetInsufficient(base.len, newBits)]
    ELSE IF num > 2^newBits - 1
    THEN [net |-> NilNet, err |-> SubnetNotAccommodated(newBits, num)]
    ELSE [net |-> [prefix |-> base.prefix * 2^newBits + num, len |-> base.len + newBits],
          err |-> NoErr]

\* strings.HasPrefix(err.Error(), "prefix extension")
HasPrefixExtension(e) == Len(e.msg) >= 1 /\ e.msg[1] = "prefix extension"

\* ------------------------------------------------------- cidr.VerifyNoOverlap
FirstIP(n) == n.prefix * 2^(AddrLen - n.len)
LastIP(n) == FirstIP(n) + 2^(AddrLen - n.len) - 1

Contains(n, ip) == ip \div 2^(AddrLen - n.len) = n.prefix

\* TRUE when VerifyNoOverlap returns nil
VerifyNoOverlap(subnets, CIDRBlock) ==
    \A a \in 1..Len(subnets) :
        /\ Contains(CIDRBlock, FirstIP(subnets[a]))
        /\ Contains(CIDRBlock, LastIP(subnets[a]))
        /\ \A b \in 1..Len(subnets) :
              a = b \/ ~(\/ Contains(subnets[a], FirstIP(subnets[b]))
                         \/ Contains(subnets[a], LastIP(subnets[b])))

\* ---------------------------------------------------------- calculateSubnet
\* math.Ceil(math.Log2(float64(n))) for n >= 1: the least b with 2^b >= n
CeilLog2(n) == CHOOSE b \in 0..AddrLen : 2^b >= n /\ (b = 0 \/ 2^(b - 1) < n)

\* int(math.Max(1.0, math.Ceil(math.Log2(float64(numZones))))); Log2(0) is -Inf
Bits(n) == IF n <= 0 THEN 1 ELSE IF CeilLog2(n) < 1 THEN 1 ELSE CeilLog2(n)

calculateSubnet(net, n, num) == Subnet(net, Bits(n), num)

\* ------------------------------------------------------------ Go slices
\* A slice is [arr |-> array id, len |-> length]; heap[id] is the backing
\* array, whose length is the capacity.
ArrayIds == {"existing", "outer", "inner"}

NilSlice(id) == [arr |-> id, len |-> 0]

View(h, s) == SubSeq(h[s.arr], 1, s.len)

\* runtime growslice for small pointer slices appended one at a time
GrowCap(oldCap) == IF oldCap = 0 THEN 1 ELSE 2 * oldCap

\* append(s, x): in place when capacity allows, else into a new array `fresh`
append(h, s, x, fresh) ==
    IF s.len < Len(h[s.arr])
    THEN [heap |-> [h EXCEPT ![s.arr][s.len + 1] = x],
          slice |-> [arr |-> s.arr, len |-> s.len + 1]]
    ELSE LET cap == GrowCap(Len(h[s.arr]))
         IN  [heap |-> [h EXCEPT ![fresh] =
                           View(h, s) \o <<x>> \o [n \in 1..(cap - s.len - 1) |-> NilNet]],
              slice |-> [arr |-> fresh, len |-> s.len + 1]]

\* ------------------------------------------------------------------- state
VARIABLES
    networkCidr, existingSubnets, zones,   \* the arguments of FromZones
    pc,                                    \* position in FromZones
    network, numZones,                     \* parsed root, len(zones)
    heap, existingNets, idx,               \* backing arrays, parsed reservations, loop index
    i, j, k,                               \* expansion factor, offset, zone index
    publicSubnet, newNets, zoneNets,       \* candidate public root, outer and inner newNets
    result, err,                           \* the returned values
    calls                                  \* number of cidr.Subnet / cidr.VerifyNoOverlap calls

vars == << networkCidr, existingSubnets, zones, pc, network, numZones, heap,
           existingNets, idx, i, j, k, publicSubnet, newNets, zoneNets, result,
           err, calls >>

inputs == << networkCidr, existingSubnets, zones >>

Init ==
    /\ \E in \in Inputs :
          /\ networkCidr = in[1]
          /\ existingSubnets = in[2]
          /\ zones = in[3]
    /\ pc = "parse_network"
    /\ network = NilNet
    /\ numZones = 0
    /\ heap = [id \in ArrayIds |-> <<>>]
    /\ existingNets = NilSlice("existing")
    /\ idx = 0
    /\ i = 0 /\ j = 0 /\ k = 0
    /\ publicSubnet = NilNet
    /\ newNets = NilSlice("outer")
    /\ zoneNets = NilSlice("inner")
    /\ result = <<>>
    /\ err = NoErr
    /\ calls = [Subnet |-> 0, VerifyNoOverlap |-> 0]

\* ---------------------------------------------------------------- control
\* return nil, e
ReturnErr(e) ==
    /\ pc' = "done"
    /\ result' = <<>>
    /\ err' = e

\* mutant: the threshold compared with > instead of >=
TooSmallOffByOne(size) == size > maxCIDRMask

\* the threshold tests `size >= maxCIDRMask`
TooSmall(size) == size >= maxCIDRMask

\* mutant: the private network number offset by 2
PrivateNumSkipTwo(off, zone) == off + zone + 2

\* the private network number: offset by 1 past the public subnet
PrivateNum(off, zone) == off + zone + 1

\* mutant: the public subnets carved from the root network
PublicParentRoot(root, pub) == root

\* the network the zone's public subnet is carved from
PublicParent(root, pub) == pub

\* mutant: the error of VerifyNoOverlap ignored
OverlapIgnored(nets, super) == FALSE

\* `if err := cidr.VerifyNoOverlap(newNets, network); err != nil`
Overlapping(nets, super) == ~VerifyNoOverlap(nets, super)

\* mutant: result declared outside the loops, kept across attempts
StaleResult(prev) == prev

\* `var result infrav1.Subnets`, declared inside the offsets loop
FreshResult(prev) == <<>>

\* mutant: the outer loop without its i++
NextFactorStuck(cur) == cur

\* `continue Outer`: the next expansion factor
NextFactor(cur) == cur + 1

\* mutant: the error names the last reservation of the list
OffendingLast(list, n) == list[Len(list)]

\* the reservation named by the error of the parsing loop
Offending(list, n) == list[n]

\* `continue Outer`
ContinueOuter ==
    /\ i' = NextFactor(i)
    /\ j' = 0
    /\ pc' = "attempt"

\* mutant: `continue Outer` written where `continue` / `continue Offsets` belongs
ContinueWrongLabel == ContinueOuter

\* `continue` / `continue Offsets`: j++ and the test j < 50, then i++ of the outer loop
ContinueOffsets ==
    /\ IF j + 1 < OffsetLimit
       THEN i' = i /\ j' = j + 1
       ELSE i' = NextFactor(i) /\ j' = 0
    /\ pc' = "attempt"

\* ------------------------------------------------------------------ actions
\* lines 21-25: parse the root block
ParseNetwork ==
    /\ pc = "parse_network"
    /\ \E p \in {ParseCIDR(networkCidr)} :
           IF p.err # NoErr
           THEN /\ ReturnErr(p.err)
                /\ UNCHANGED << network, numZones >>
           ELSE /\ network' = p.net
                /\ numZones' = Len(zones)
                /\ pc' = IF Len(existingSubnets) = 0 THEN "attempt" ELSE "parse_existing"
                /\ UNCHANGED << result, err >>
    /\ UNCHANGED << inputs, heap, existingNets, idx, i, j, k, publicSubnet,
                    newNets, zoneNets, calls >>

\* lines 27-33: one iteration of the loop over existingSubnets
ParseExisting ==
    /\ pc = "parse_existing"
    /\ idx < Len(existingSubnets)
    /\ \E p \in {ParseCIDR(existingSubnets[idx + 1])} :
       \E a \in {append(heap, existingNets, p.net, "existing")} :
           IF p.err # NoErr
           THEN /\ ReturnErr(Wrapf(p.err, Offending(existingSubnets, idx + 1)))
                /\ UNCHANGED << heap, existingNets, idx >>
           ELSE /\ heap' = a.heap
                /\ existingNets' = a.slice
                /\ idx' = idx + 1
                /\ pc' = IF idx + 1 = Len(existingSubnets) THEN "attempt" ELSE "parse_existing"
                /\ UNCHANGED << result, err >>
    /\ UNCHANGED << inputs, network, numZones, i, j, k, publicSubnet, newNets,
                    zoneNets, calls >>

\* lines 44-58: the head of one attempt (i, j)
Attempt ==
    /\ pc = "attempt"
    /\ \E r \in {calculateSubnet(network, numZones + i, j)} :
       \E a \in {append(heap, existingNets, r.net, "outer")} :
           IF r.err # NoErr
           THEN /\ IF HasPrefixExtension(r.err)
                   THEN ContinueOuter /\ result' = FreshResult(result) /\ UNCHANGED err
                   ELSE ReturnErr(r.err) /\ UNCHANGED << i, j >>
                /\ calls' = [calls EXCEPT !.Subnet = @ + 1]
                /\ UNCHANGED << heap, publicSubnet, newNets, k >>
           ELSE IF TooSmall(r.net.len)
           THEN /\ ReturnErr(errInvalidNetwork)
                /\ publicSubnet' = r.net
                /\ calls' = [calls EXCEPT !.Subnet = @ + 1]
                /\ UNCHANGED << heap, newNets, i, j, k >>
           ELSE /\ publicSubnet' = r.net
                /\ heap' = a.heap
                /\ newNets' = a.slice
                /\ calls' = [Subnet |-> calls.Subnet + 1,
                             VerifyNoOverlap |-> calls.VerifyNoOverlap + 1]
                /\ IF Overlapping(View(a.heap, a.slice), network)
                   THEN ContinueOffsets /\ UNCHANGED k
                   ELSE pc' = "zones" /\ k' = 0 /\ UNCHANGED << i, j >>
                /\ result' = FreshResult(result)
                /\ UNCHANGED err
    /\ UNCHANGED << inputs, network, numZones, existingNets, idx, zoneNets >>

\* lines 60-93: one iteration of the loop over zones
Zone ==
    /\ pc = "zones"
    /\ k < numZones
    /\ \E pub \in {calculateSubnet(PublicParent(network, publicSubnet), numZones + i, k)} :
       \E priv \in {calculateSubnet(network, numZones + i, PrivateNum(j, k))} :
       \E a \in {append(heap, newNets, priv.net, "inner")} :
           IF pub.err # NoErr
           THEN /\ ReturnErr(pub.err)
                /\ calls' = [calls EXCEPT !.Subnet = @ + 1]
                /\ UNCHANGED << heap, zoneNets, i, j, k >>
           ELSE IF TooSmall(pub.net.len)
           THEN /\ ReturnErr(errInvalidNetwork)
                /\ calls' = [calls EXCEPT !.Subnet = @ + 1]
                /\ UNCHANGED << heap, zoneNets, i, j, k >>
           ELSE IF priv.err # NoErr
           THEN /\ IF HasPrefixExtension(priv.err)
                   THEN ContinueOuter /\ UNCHANGED << result, err >>
                   ELSE ReturnErr(priv.err) /\ UNCHANGED << i, j >>
                /\ calls' = [calls EXCEPT !.Subnet = @ + 2]
                /\ UNCHANGED << heap, zoneNets, k >>
           ELSE /\ heap' = a.heap
                /\ zoneNets' = a.slice
                /\ calls' = [Subnet |-> calls.Subnet + 2,
                             VerifyNoOverlap |-> calls.VerifyNoOverlap + 1]
                /\ IF ~Overlapping(View(a.heap, a.slice), network)
                   THEN /\ result' = result \o
                              << [IsPublic |-> TRUE, CidrBlock |-> NetString(pub.net),
                                  AvailabilityZone |-> zones[k + 1]],
                                 [IsPublic |-> FALSE, CidrBlock |-> NetString(priv.net),
                                  AvailabilityZone |-> zones[k + 1]] >>
                        /\ k' = k + 1
                        /\ UNCHANGED << pc, i, j >>
                   ELSE /\ ContinueOffsets
                        /\ UNCHANGED << result, k >>
                /\ UNCHANGED err
    /\ UNCHANGED << inputs, network, numZones, existingNets, idx, publicSubnet, newNets >>

\* line 94: return result, nil
Return ==
    /\ pc = "zones"
    /\ k = numZones
    /\ pc' = "done"
    /\ UNCHANGED << inputs, network, numZones, heap, existingNets, idx, i, j, k,
                    publicSubnet, newNets, zoneNets, result, err, calls >>

Next == ParseNetwork \/ ParseExisting \/ Attempt \/ Zone \/ Return

Spec == Init /\ [][Next]_vars

\* FromZones is one sequential call: it keeps running until it returns
FairSpec == Spec /\ WF_vars(Next)

\* ================================================================= claims
Returned == pc = "done"
Succeeded == pc = "done" /\ err = NoErr
InputsParse == ParseOk(networkCidr) /\ \A n \in 1..Len(existingSubnets) : ParseOk(existingSubnets[n])

\* address arithmetic on CIDR strings, independent of the block operators above
StrSize(s) == 2^(AddrLen - s.bits)
StrFirst(s) == (IPToInt(s.ip) \div StrSize(s)) * StrSize(s)
StrLast(s) == StrFirst(s) + StrSize(s) - 1
StrOverlap(s, u) == StrFirst(s) <= StrLast(u) /\ StrFirst(u) <= StrLast(s)
StrInside(s, u) == StrFirst(u) <= StrFirst(s) /\ StrLast(s) <= StrLast(u)
StrAt(first, bits) == [ip |-> IntToIP(first), bits |-> bits]

ReturnedBlocks == [n \in 1..Len(result) |-> result[n].CidrBlock]

\* C1: whenever FromZones succeeds, no two distinct blocks among the returned
\* public and private blocks and the existing reservations share an address.
C1_NoOverlap ==
    Succeeded =>
        LET all == ReturnedBlocks \o existingSubnets
        IN  \A a, b \in 1..Len(all) : a # b => ~StrOverlap(all[a], all[b])

C1_Witness ==
    /\ Succeeded
    /\ Len(existingSubnets) >= 1
    /\ Len(zones) >= 2
    /\ i > 0 /\ j > 0

\* C2: on success the result has exactly 2*N records; record 2k is public and
\* record 2k+1 private, both tagged with zone k, in input zone order.
C2_OutputShape ==
    Succeeded =>
        /\ Len(result) = 2 * Len(zones)
        /\ \A n \in 1..Len(zones) :
              /\ result[2 * n - 1].IsPublic = TRUE
              /\ result[2 * n - 1].AvailabilityZone = zones[n]
              /\ result[2 * n].IsPublic = FALSE
              /\ result[2 * n].AvailabilityZone = zones[n]

\* a success that follows an attempt rejected after some zone had been accepted
C2_Witness ==
    /\ Succeeded
    /\ Len(zones) >= 2
    /\ i > 0
    /\ Len(result) = 2 * Len(zones)

\* C3: on success every returned block, public and private, has a mask
\* length strictly below maxCIDRMask.
C3_MinimumSize ==
    Succeeded => \A n \in 1..Len(result) : result[n].CidrBlock.bits < maxCIDRMask

C3_Witness ==
    /\ Succeeded
    /\ Len(result) >= 2
    /\ result[1].CidrBlock.bits = maxCIDRMask - 1
    /\ result[2].CidrBlock.bits < result[1].CidrBlock.bits

\* C4: once the root and all reservations have parsed, every failing call
\* (with a non-empty zone list) returns exactly errInvalidNetwork.
C4_SingleFailureKind ==
    (Returned /\ InputsParse /\ Len(zones) >= 1 /\ err # NoErr) => err = errInvalidNetwork

\* the largest expansion factor a root of mask length L admits
MaxFactor == IF ParseOk(networkCidr) /\ networkCidr.bits < 28
             THEN 2^(27 - networkCidr.bits) + 1 ELSE 0

StepsPerAttempt == Len(zones) + 2

\* attempts left in the search after the attempt (i, j)
AttemptsLeft == (MaxFactor - i) * 50 + (49 - j)

SearchRank == Len(zones) + 2 + StepsPerAttempt * (MaxFactor * 50 + 49)

\* the number of steps FromZones can still take, at most
Rank ==
    CASE pc = "done" -> 0
      [] pc = "zones" -> 1 + (Len(zones) - k) + StepsPerAttempt * AttemptsLeft
      [] pc = "attempt" -> Len(zones) + 2 + StepsPerAttempt * AttemptsLeft
      [] pc = "parse_existing" -> SearchRank + 1 + (Len(existingSubnets) - idx)
      [] pc = "parse_network" -> SearchRank + 2 + Len(existingSubnets)

\* C5: every call of FromZones eventually returns: until it has returned a
\* step is always possible, and every step strictly decreases a non-negative
\* bound on the steps that remain; so no run can go on forever, for any
\* root, reservation list or zone list (the empty one included).
C5_Terminates ==
    /\ [](pc = "done" \/ ENABLED Next)
    /\ [](Rank >= 0)
    /\ [][Rank' < Rank]_vars

\* a call that returned after more than a hundred expansion factors
C5_Witness == Returned /\ i > 100

\* C6: an unparseable root is reported without looking at reservations or
\* zones; otherwise the first unparseable reservation is reported by name;
\* in both cases no split and no overlap check is ever performed.
FirstBad == CHOOSE n \in 1..Len(existingSubnets) :
                /\ ~ParseOk(existingSubnets[n])
                /\ \A m \in 1..(n - 1) : ParseOk(existingSubnets[m])

C6_EagerValidation ==
    /\ ~InputsParse => calls = [Subnet |-> 0, VerifyNoOverlap |-> 0] /\ pc # "attempt" /\ pc # "zones"
    /\ (Returned /\ ~ParseOk(networkCidr)) =>
          /\ err = ParseError(networkCidr)
          /\ result = <<>>
          /\ idx = 0 /\ existingNets.len = 0 /\ numZones = 0
    /\ (Returned /\ ParseOk(networkCidr) /\ ~InputsParse) =>
          /\ err.kind = "withMessage"
          /\ err.msg[1] = "unable to parse subnet"
          /\ err.subject = existingSubnets[FirstBad]
          /\ result = <<>>
          /\ idx = FirstBad - 1

C6_Witness ==
    /\ Returned
    /\ ParseOk(networkCidr)
    /\ Len(existingSubnets) >= 2
    /\ ParseOk(existingSubnets[1])
    /\ ~ParseOk(existingSubnets[2])
    /\ err.subject = existingSubnets[2]

\* C7: with no reservations, N >= 1 zones and b = ceil(log2(N+1)), if
\* L + 2b < 28 the call succeeds; public block k is child k (b bits) of child
\* 0 (b bits) of the root and private block k is child k+1 (b bits) of the root.
DefaultBits == CHOOSE b \in 0..AddrLen :
                  /\ 2^b >= Len(zones) + 1
                  /\ \A c \in 0..(b - 1) : 2^c < Len(zones) + 1

C7_DefaultLayout ==
    (/\ Returned
     /\ ParseOk(networkCidr)
     /\ existingSubnets = <<>>
     /\ Len(zones) >= 1
     /\ networkCidr.bits + 2 * DefaultBits < 28) =>
        LET L == networkCidr.bits
            b == DefaultBits
            root == StrFirst(networkCidr)
        IN  /\ err = NoErr
            /\ Len(result) = 2 * Len(zones)
            /\ \A n \in 0..(Len(zones) - 1) :
                  /\ result[2 * n + 1].CidrBlock =
                        StrAt(root + n * 2^(AddrLen - L - 2 * b), L + 2 * b)
                  /\ result[2 * n + 2].CidrBlock =
                        StrAt(root + (n + 1) * 2^(AddrLen - L - b), L + b)

\* 10.0.0.0/16 with one zone gives public 10.0.0.0/18 and private 10.0.128.0/17
C7_Witness ==
    /\ Succeeded
    /\ networkCidr = Str(10, 0, 0, 0, 16)
    /\ existingSubnets = <<>>
    /\ Len(zones) = 1
    /\ result[1].CidrBlock = Str(10, 0, 0, 0, 18)
    /\ result[2].CidrBlock = Str(10, 0, 128, 0, 17)

\* C8: if the reservations together cover every address of the root block,
\* the call (with a non-empty zone list) fails with errInvalidNetwork.
FinestBits ==
    LET lens == {networkCidr.bits} \cup {existingSubnets[n].bits : n \in 1..Len(existingSubnets)}
    IN  CHOOSE m \in lens : \A l \in lens : l <= m

RootCovered ==
    LET unit == 2^(AddrLen - FinestBits)
    IN  \A u \in 0..(StrSize(networkCidr) \div unit - 1) :
            \E n \in 1..Len(existingSubnets) :
                /\ StrFirst(existingSubnets[n]) <= StrFirst(networkCidr) + u * unit
                /\ StrFirst(networkCidr) + u * unit <= StrLast(existingSubnets[n])

C8_ExhaustedSpace ==
    (Returned /\ InputsParse /\ Len(zones) >= 1 /\ RootCovered) => err = errInvalidNetwork

\* C9: a successful result comes from the final pair (i, j): with
\* bits = max(1, ceil(log2(N+i))), public block k is child k of child j of
\* the root and private block k is child j+k+1 of the root; so every block
\* lies inside the root, privates have mask L+bits, publics L+2*bits, and no
\* private block is the block at offset j.
FinalBits ==
    LET n == Len(zones) + i
        c == CHOOSE b \in 0..AddrLen : 2^b >= n /\ \A d \in 0..(b - 1) : 2^d < n
    IN  IF c < 1 THEN 1 ELSE c

C9_BlockDerivation ==
    Succeeded =>
        LET L == networkCidr.bits
            b == FinalBits
            root == StrFirst(networkCidr)
            privSize == 2^(AddrLen - L - b)
            pubSize == 2^(AddrLen - L - 2 * b)
            pubRoot == StrAt(root + j * privSize, L + b)
        IN  /\ j < 2^b
            /\ \A n \in 0..(Len(zones) - 1) :
                  LET pub == result[2 * n + 1].CidrBlock
                      priv == result[2 * n + 2].CidrBlock
                  IN  /\ pub = StrAt(root + j * privSize + n * pubSize, L + 2 * b)
                      /\ priv = StrAt(root + (j + n + 1) * privSize, L + b)
                      /\ StrInside(pub, networkCidr) /\ StrInside(priv, networkCidr)
                      /\ StrInside(pub, pubRoot)
                      /\ priv # pubRoot /\ ~StrOverlap(priv, pubRoot)

C9_Witness ==
    /\ Succeeded
    /\ Len(zones) >= 2
    /\ j >= 4
    /\ i >= 2

\* reservations that parse, lie inside the root and do not overlap each other
UsableReservations ==
    /\ InputsParse
    /\ \A n \in 1..Len(existingSubnets) :
          /\ StrInside(existingSubnets[n], networkCidr)
          /\ \A m \in 1..Len(existingSubnets) :
                m = n \/ ~StrOverlap(existingSubnets[n], existingSubnets[m])

\* C10 as stated: both cursors stay under a fixed ceiling on the order of
\* 100 (here for calls with at least one zone and usable reservations).
C10_FixedCeiling ==
    (Len(zones) >= 1 /\ UsableReservations) => (i <= 100 /\ j <= 100)

\* C10 amended: the offset stays below 50; the expansion factor is bounded
\* only through the root's mask length L, by N + i <= 2^(27-L) + 1 once it is
\* positive; a call whose final split reaches mask 28 has failed.
C10_Bounded ==
    /\ j < 50
    /\ i > 0 => /\ networkCidr.bits < 28
                /\ Len(zones) + i <= 2^(27 - networkCidr.bits) + 1
    /\ (Returned /\ InputsParse /\ networkCidr.bits + FinalBits >= 28) => err # NoErr

\* the offset loop ran to its last offset and the expansion factor went far past 100
C10_Witness == Returned /\ i > 2000 /\ err = errInvalidNetwork

\* child n of the root under a split of b bits, by address arithmetic
ChildStr(b, n) ==
    StrAt(StrFirst(networkCidr) + n * 2^(AddrLen - networkCidr.bits - b), networkCidr.bits + b)

AvoidsReservations(s) ==
    \A n \in 1..Len(existingSubnets) : ~StrOverlap(s, existingSubnets[n])

\* child off and its N following siblings exist under b bits and avoid the reservations
ValidAt(b, off) ==
    /\ off + Len(zones) < 2^b
    /\ \A n \in off..(off + Len(zones)) : AvoidsReservations(ChildStr(b, n))

\* max(1, ceil(log2 N)): the split of the first expansion factor
FirstBits == CHOOSE b \in 1..AddrLen :
                 /\ 2^b >= Len(zones)
                 /\ (b = 1 \/ 2^(b - 1) < Len(zones))

\* the split of a successful result, read from its first private block
ResultBits == IF Len(result) >= 2 THEN result[2].CidrBlock.bits - networkCidr.bits
              ELSE FinalBits

\* C11 as stated: a success with split b means that no smaller split b' >=
\* max(1, ceil(log2 N)) has any offset whose N+1 consecutive blocks exist and
\* avoid the reservations, and j is the smallest such offset of split b.
C11_LargestFirst ==
    Succeeded =>
        /\ \A b \in FirstBits..(ResultBits - 1) :
              \A off \in 0..(2^b - 1) : ~ValidAt(b, off)
        /\ ValidAt(ResultBits, j)
        /\ \A off \in 0..(j - 1) : ~ValidAt(ResultBits, off)

\* C11 amended: a success with split b means that no smaller split b' >=
\* max(1, ceil(log2 N)) has such an offset among the first 50 offsets (0..49),
\* the only ones the search tries; j is the smallest such offset of split b.
C11_LargestFirstTried ==
    Succeeded =>
        /\ \A b \in FirstBits..(ResultBits - 1) :
              \A off \in 0..49 : ~ValidAt(b, off)
        /\ ValidAt(ResultBits, j)
        /\ j < 50
        /\ \A off \in 0..(j - 1) : ~ValidAt(ResultBits, off)

\* a success after smaller splits and earlier offsets had been rejected
C11_Witness ==
    /\ Succeeded
    /\ Len(zones) >= 1
    /\ ResultBits >= FirstBits + 2
    /\ j >= 4

Range(s) == {s[n] : n \in 1..Len(s)}

\* the private blocks accepted so far in the current attempt (zones 0..k-1)
AcceptedPrivates == {ParseNet(result[2 * n].CidrBlock) : n \in 1..k}

\* C12: when a zone of an attempt has been checked (zone k-1, accepted), the
\* blocks that were passed to the overlap check are the existing reservations,
\* the candidate public root and every private block accepted for the zones
\* of this attempt up to and including the new one.
C12_RunningOverlapState ==
    (pc = "zones" /\ k >= 1) =>
        Range(View(heap, zoneNets)) =
            Range(View(heap, existingNets)) \cup {publicSubnet} \cup AcceptedPrivates

\* the reservations parsed so far, in their original order
ParsedExisting == [n \in 1..idx |-> ParseNet(existingSubnets[n])]

\* child n of the root under a split of b bits, as a network
NetAt(b, n) == ParseNet(ChildStr(b, n))

\* the split of the attempt whose public root is publicSubnet
AttemptBits == publicSubnet.len - network.len

\* inside an attempt (and after a successful return): the working set is the
\* reservations followed by this attempt's public root, and result holds the
\* records of the k zones accepted in this attempt and nothing else
AttemptStateFresh ==
    /\ View(heap, newNets) = ParsedExisting \o << publicSubnet >>
    /\ publicSubnet = NetAt(AttemptBits, j)
    /\ Len(result) = 2 * k
    /\ \A n \in 1..k :
          /\ StrInside(result[2 * n - 1].CidrBlock, NetString(publicSubnet))
          /\ result[2 * n].CidrBlock = ChildStr(AttemptBits, j + n)
    /\ k >= 1 => View(heap, zoneNets) =
                     ParsedExisting \o << publicSubnet, NetAt(AttemptBits, j + k) >>

\* every call of the overlap check, accepted or rejected, reads the
\* reservations followed by blocks of the attempt that makes the call
ChecksReadFresh ==
    calls'.VerifyNoOverlap # calls.VerifyNoOverlap =>
        IF pc = "attempt"
        THEN /\ View(heap', newNets') = ParsedExisting \o << publicSubnet' >>
             /\ result' = <<>>
        ELSE View(heap', zoneNets') =
                 ParsedExisting \o << publicSubnet, NetAt(AttemptBits, j + k + 1) >>

\* C13: every attempt starts from the parsed reservations in their original
\* order and an empty result; no block or record of an earlier rejected
\* attempt (blocks left in a shared backing array included) is read by an
\* overlap check or returned, and the reservation list is never modified.
C13_FreshState ==
    /\ [](View(heap, existingNets) = ParsedExisting)
    /\ []((pc = "zones" \/ Succeeded) => AttemptStateFresh)
    /\ [][ChecksReadFresh]_vars

\* a successful return after rejected attempts whose appends wrote into the
\* backing array of the reservation list
C13_Witness ==
    /\ Succeeded
    /\ i + j > 0
    /\ k >= 1
    /\ newNets.arr = "existing"
    /\ zoneNets.arr = "existing"
    /\ Len(heap["existing"]) > existingNets.len + 1

\* reservations that parse but cannot all be honoured: one is not contained
\* in the root, or two of them overlap (the same block listed twice included)
UnusableReservations == InputsParse /\ ~UsableReservations

\* C14: with an unusable reservation set no attempt gets past its overlap
\* check, for any zone list, and the call ends in the failure
\* errInvalidNetwork ('Could not find a valid subnet configuration').
C14_UnusableAlwaysFail ==
    UnusableReservations =>
        /\ pc # "zones"
        /\ Returned => (result = <<>> /\ err = errInvalidNetwork)

====
